---- MODULE Spec2Model ----
(***************************************************************************)
(* Model of job_queue.py: one JobQueue object shared by the worker thread  *)
(* (worker_loop) and a number of caller threads issuing add_job,           *)
(* remove_job and stop_job.  The queue file is the only shared store; it   *)
(* is read by _load_queue and rewritten as a whole by _save_queue.         *)
(*                                                                         *)
(* Granularity.  Every `with self.lock` block that saves is two steps:     *)
(*   Begin: acquire the lock, _load_queue, modify the list in memory and   *)
(*          open the file for writing (which truncates it);                *)
(*   End:   json.dump into the file, close it, release the lock.           *)
(* A _load_queue made outside the lock while a save is in progress reads a *)
(* truncated file, json.load raises JSONDecodeError and the caller gets [] *)
(* (lines 28-32).  Everything the worker does between two accesses of the  *)
(* store or of the child process is local and is one step.                 *)
(***************************************************************************)
EXTENDS Integers, Sequences, FiniteSets, TLC

\* ------------------------------------------------------------------ bounds
MaxJobs == 2          \* add_job is called at most this many times
NumCallers == 1       \* concurrent caller threads

\* --------------------------------------------------------------- constants
Worker == 0                       \* the thread running worker_loop
NoThread == -1                    \* the lock is free

JobIds == 1..MaxJobs              \* the values uuid4()[:8] yields, taken distinct
NoJob == 0                        \* job_id not bound

None == <<>>                      \* Python None (Optional values are None or Some(v))
Some(v) == <<v>>

Commands == {"cmd"}               \* command strings; the child decides what they do
NameArgs == {None}                \* the name argument of add_job (None: not given)
\* process.returncode of a child that ended on its own: 0, a failure code, or
\* minus the number of the signal that ended the shell (-15 for SIGTERM).
ExitCodes == {0, 1, -15}

Terminal == {"completed", "failed", "stopped"}

VARIABLES
    queue_file,          \* content of job_queue.json as of the last finished save
    lock,                \* holder of self.lock, or NoThread
    jobs,                \* jobs[t]: the list thread t is saving (None when it is not)
    loaded,              \* loaded[t]: what t's _load_queue returned inside the lock
    clock,               \* datetime.now(), as a logical clock
    next_id,             \* the next fresh job id
    call,                \* call[c]: the operation caller c runs or ran last
    cpc,                 \* cpc[c]: caller c's position
    wpc,                 \* the worker's position
    job_id,              \* run_next_job's local job_id
    err,                 \* the exception caught at line 226 (None when there is none)
    idle_jobs,           \* worker_loop: ids the loop of line 254 still has to cancel
    running_processes,   \* self.running_processes (its keys)
    procs,               \* procs[i]: the child process launched for job i
    job_logs             \* job_logs[i]: every record written to job_<i>.log, in order

vars == <<queue_file, lock, jobs, loaded, clock, next_id, call, cpc, wpc, job_id,
          err, idle_jobs, running_processes, procs, job_logs>>

storeVars == <<queue_file, lock, jobs, loaded>>
callerVars == <<call, cpc>>
workerVars == <<wpc, job_id, err, idle_jobs, running_processes>>

\* The threads calling add_job, remove_job and stop_job: those with a position.
Callers == DOMAIN cpc
Threads == {Worker} \cup Callers

\* ------------------------------------------------------------ queue store

\* A save is in progress: the file is open for writing and not yet written.
Saving == \E t \in Threads : jobs[t] # None

\* _load_queue called outside the lock.
LoadQueue == IF Saving THEN <<>> ELSE queue_file

\* No mutual exclusion: the lock is never seen held.
NoLock == TRUE

\* `with self.lock`: the lock can be taken.
LockFree == lock = NoThread

\* Indexes of the jobs with this id, as the loops over the list meet them.
IndexesOf(js, id) == {i \in 1..Len(js) : js[i].id = id}

Min(S) == CHOOSE m \in S : \A n \in S : m <= n

\* get_job on a loaded list: None, or Some(job).
Find(js, id) == IF IndexesOf(js, id) = {} THEN None ELSE Some(js[Min(IndexesOf(js, id))])

\* get_job: an unlocked load, then the search.
GetJob(id) == Find(LoadQueue, id)

\* dict.update
Merge(job, updates) ==
    [f \in DOMAIN job |-> IF f \in DOMAIN updates THEN updates[f] ELSE job[f]]

\* The body of _update_job between load and save: the first job with the id
\* is merged with the updates; an absent id changes nothing.
UpdateJobs(js, id, updates) ==
    IF IndexesOf(js, id) = {} THEN js
    ELSE [i \in 1..Len(js) |->
            IF i = Min(IndexesOf(js, id)) THEN Merge(js[i], updates) ELSE js[i]]

\* list.pop(i)
Pop(js, i) == [k \in 1..(Len(js) - 1) |-> IF k < i THEN js[k] ELSE js[k + 1]]

\* Begin of a locked load-modify-save by thread t: new is the list to save.
BeginSave(t, new) ==
    /\ LockFree
    /\ lock' = t
    /\ loaded' = [loaded EXCEPT ![t] = Some(queue_file)]
    /\ jobs' = [jobs EXCEPT ![t] = Some(new)]
    /\ UNCHANGED queue_file

\* End of it: _save_queue completes and the lock is released.
EndSave(t) ==
    /\ jobs[t] # None
    /\ queue_file' = jobs[t][1]
    /\ jobs' = [jobs EXCEPT ![t] = None]
    /\ loaded' = [loaded EXCEPT ![t] = None]
    /\ lock' = NoThread

\* _update_job(id, updates), first half.
UpdateJobBegin(t, id, updates) == BeginSave(t, UpdateJobs(queue_file, id, updates))

\* ------------------------------------------------------------------ Init

\* call[c]: the operation, its job id, the status stop_job saw at line 120 and
\* the value returned (None until the call returns).
NoCall == [op |-> "none", id |-> NoJob, seen |-> None, ret |-> None]
NoProc == [st |-> "none", rc |-> 0]

\* A new JobQueue on an empty file, with n caller threads; first is the
\* first id add_job draws.
InitWith(n, first) ==
    /\ queue_file = <<>>
    /\ lock = NoThread
    /\ jobs = [t \in {Worker} \cup (1..n) |-> None]
    /\ loaded = [t \in {Worker} \cup (1..n) |-> None]
    /\ clock = 1
    /\ next_id = first
    /\ call = [c \in 1..n |-> NoCall]
    /\ cpc = [c \in 1..n |-> "idle"]
    /\ wpc = "load"
    /\ job_id = NoJob
    /\ err = None
    /\ idle_jobs = <<>>
    /\ running_processes = {}
    /\ procs = [i \in JobIds |-> NoProc]
    /\ job_logs = [i \in JobIds |-> <<>>]

Init == InitWith(NumCallers, 1)

\* ---------------------------------------------------------------- callers

NewJob(id, command, name) ==
    [id |-> id,
     name |-> IF name = None THEN <<"Job", id>> ELSE name,
     command |-> command,
     status |-> "pending",
     created_at |-> Some(clock),
     started_at |-> None,
     completed_at |-> None,
     exit_code |-> None,
     pid |-> None,
     stop_requested |-> FALSE]

\* add_job, lines 74-92 up to the truncating open.
AddJobBegin(c, command, name) ==
    /\ cpc[c] = "idle"
    /\ next_id <= MaxJobs
    /\ BeginSave(c, Append(queue_file, NewJob(next_id, command, name)))
    /\ call' = [call EXCEPT ![c] = [op |-> "add", id |-> next_id, seen |-> None, ret |-> None]]
    /\ cpc' = [cpc EXCEPT ![c] = "add_save"]
    /\ next_id' = next_id + 1
    /\ clock' = clock + 1
    /\ UNCHANGED <<workerVars, procs, job_logs>>

\* add_job, lines 92-95.
AddJobEnd(c) ==
    /\ cpc[c] = "add_save"
    /\ EndSave(c)
    /\ call' = [call EXCEPT ![c].ret = Some(call[c].id)]
    /\ cpc' = [cpc EXCEPT ![c] = "idle"]
    /\ UNCHANGED <<clock, next_id, workerVars, procs, job_logs>>

\* A removal that does not look at the status.
RemoveIndexes_AnyStatus(js, id) == {i \in 1..Len(js) : js[i].id = id}

\* Index remove_job pops: the first job with the id that is pending.
RemoveIndexes(js, id) == {i \in 1..Len(js) : js[i].id = id /\ js[i].status = "pending"}

\* remove_job, lines 108-113: a pending job with the id is found and popped.
RemoveJobBegin(c, id) ==
    /\ cpc[c] = "idle"
    /\ RemoveIndexes(queue_file, id) # {}
    /\ BeginSave(c, Pop(queue_file, Min(RemoveIndexes(queue_file, id))))
    /\ call' = [call EXCEPT ![c] = [op |-> "remove", id |-> id, seen |-> None, ret |-> None]]
    /\ cpc' = [cpc EXCEPT ![c] = "remove_save"]
    /\ UNCHANGED <<clock, next_id, workerVars, procs, job_logs>>

\* remove_job, lines 113-115.
RemoveJobEnd(c) ==
    /\ cpc[c] = "remove_save"
    /\ EndSave(c)
    /\ call' = [call EXCEPT ![c].ret = Some(TRUE)]
    /\ cpc' = [cpc EXCEPT ![c] = "idle"]
    /\ UNCHANGED <<clock, next_id, workerVars, procs, job_logs>>

\* remove_job, lines 108-111 and 116: no pending job with the id; nothing is saved.
RemoveJobFail(c, id) ==
    /\ cpc[c] = "idle"
    /\ LockFree
    /\ RemoveIndexes(queue_file, id) = {}
    /\ call' = [call EXCEPT ![c] = [op |-> "remove", id |-> id, seen |-> None,
                                     ret |-> Some(FALSE)]]
    /\ UNCHANGED <<storeVars, cpc, clock, next_id, workerVars, procs, job_logs>>

\* The test of line 121 on what get_job returned.
Stoppable(found) == found # None /\ found[1].status \in {"pending", "running"}

\* stop_job, lines 120-121 and 125: get_job outside the lock, then the test.
StopJobCheck(c, id) ==
    /\ cpc[c] = "idle"
    /\ IF Stoppable(GetJob(id))
       THEN /\ call' = [call EXCEPT ![c] = [op |-> "stop", id |-> id,
                                            seen |-> Some(GetJob(id)[1].status),
                                            ret |-> None]]
            /\ cpc' = [cpc EXCEPT ![c] = "stop_update"]
       ELSE /\ call' = [call EXCEPT ![c] = [op |-> "stop", id |-> id, seen |-> None,
                                            ret |-> Some(FALSE)]]
            /\ cpc' = cpc
    /\ UNCHANGED <<storeVars, clock, next_id, workerVars, procs, job_logs>>

\* stop_job, line 122: _update_job up to the truncating open.
StopJobUpdateBegin(c) ==
    /\ cpc[c] = "stop_update"
    /\ UpdateJobBegin(c, call[c].id, [stop_requested |-> TRUE])
    /\ cpc' = [cpc EXCEPT ![c] = "stop_save"]
    /\ UNCHANGED <<call, clock, next_id, workerVars, procs, job_logs>>

\* stop_job, lines 122-124: the save, then return True.
StopJobUpdateEnd(c) ==
    /\ cpc[c] = "stop_save"
    /\ EndSave(c)
    /\ call' = [call EXCEPT ![c].ret = Some(TRUE)]
    /\ cpc' = [cpc EXCEPT ![c] = "idle"]
    /\ UNCHANGED <<clock, next_id, workerVars, procs, job_logs>>

\* ------------------------------------------------------------ job log writer

\* _write_job_log: the header fields of the job, then the two sections (a
\* section is written only when its text is not empty).
JobLogRecord(job, stdout, stderr) ==
    [id |-> job.id, name |-> job.name, command |-> job.command,
     status |-> job.status, created_at |-> job.created_at,
     started_at |-> job.started_at, completed_at |-> job.completed_at,
     exit_code |-> job.exit_code,
     stdout |-> IF stdout # "" THEN Some(stdout) ELSE None,
     stderr |-> IF stderr # "" THEN Some(stderr) ELSE None]

\* get_job, then _write_job_log if the job was found (lines 190-192, 215-217,
\* 239-241).  The file is opened with 'w'; job_logs keeps every write.
WriteLogIfFound(id, stdout, stderr) ==
    IF GetJob(id) # None
    THEN job_logs' = [job_logs EXCEPT
                        ![id] = Append(@, JobLogRecord(GetJob(id)[1], stdout, stderr))]
    ELSE job_logs' = job_logs

\* ----------------------------------------------------------------- worker

\* Indexes of the pending jobs of a list.
PendingIndexes(js) == {i \in 1..Len(js) : js[i].status = "pending"}

\* A scan that keeps the last pending job instead of the first.
LastPending(js) == CHOOSE m \in PendingIndexes(js) : \A n \in PendingIndexes(js) : m >= n

\* The scan of lines 139-140: the index of the first pending job.
FirstPending(js) == Min(PendingIndexes(js))

\* run_next_job, lines 137-142 and 246: load outside the lock and take the
\* first pending job; with none, return False to worker_loop.
W_Load ==
    /\ wpc = "load"
    /\ IF PendingIndexes(LoadQueue) # {}
       THEN /\ job_id' = LoadQueue[FirstPending(LoadQueue)].id
            /\ wpc' = "claim"
       ELSE /\ job_id' = NoJob
            /\ wpc' = "idle"
    /\ UNCHANGED <<storeVars, clock, next_id, callerVars, err, idle_jobs,
                   running_processes, procs, job_logs>>

\* The updates of lines 144-147.
ClaimUpdates == [status |-> "running", started_at |-> Some(clock)]

\* run_next_job, lines 144-147: _update_job up to the truncating open.
W_ClaimBegin ==
    /\ wpc = "claim"
    /\ UpdateJobBegin(Worker, job_id, ClaimUpdates)
    /\ clock' = clock + 1
    /\ wpc' = "claim_save"
    /\ UNCHANGED <<next_id, callerVars, job_id, err, idle_jobs, running_processes,
                   procs, job_logs>>

\* Second half of a worker _update_job: save, release, go on at `next`.
W_EndSave(here, next) ==
    /\ wpc = here
    /\ EndSave(Worker)
    /\ wpc' = next
    /\ UNCHANGED <<clock, next_id, callerVars, job_id, err, idle_jobs,
                   running_processes, procs, job_logs>>

W_ClaimEnd == W_EndSave("claim_save", "spawn")

\* run_next_job, lines 150-159: Popen either raises (the except clause of line
\* 226 is entered) or yields a live child, which is put in running_processes.
W_Spawn ==
    /\ wpc = "spawn"
    /\ \/ /\ err' = Some("launch error")
          /\ wpc' = "except"
          /\ UNCHANGED <<procs, running_processes>>
       \/ /\ procs' = [procs EXCEPT ![job_id] = [st |-> "alive", rc |-> 0]]
          /\ running_processes' = running_processes \cup {job_id}
          /\ wpc' = "set_pid"
          /\ err' = err
    /\ UNCHANGED <<storeVars, clock, next_id, callerVars, job_id, idle_jobs, job_logs>>

\* process.pid: the child of job i has pid i.
PidOf(i) == i

\* run_next_job, line 162.
W_SetPidBegin ==
    /\ wpc = "set_pid"
    /\ UpdateJobBegin(Worker, job_id, [pid |-> Some(PidOf(job_id))])
    /\ wpc' = "set_pid_save"
    /\ UNCHANGED <<clock, next_id, callerVars, job_id, err, idle_jobs,
                   running_processes, procs, job_logs>>

W_SetPidEnd == W_EndSave("set_pid_save", "poll")

\* The child exits on its own with some exit code.
ProcExit(i, rc) ==
    /\ procs[i].st = "alive"
    /\ procs' = [procs EXCEPT ![i] = [st |-> "exited", rc |-> rc]]
    /\ UNCHANGED <<storeVars, clock, next_id, callerVars, workerVars, job_logs>>

\* run_next_job, line 167: process.poll().
W_Poll ==
    /\ wpc = "poll"
    /\ wpc' = IF procs[job_id].st = "alive" THEN "check_stop" ELSE "communicate"
    /\ UNCHANGED <<storeVars, clock, next_id, callerVars, job_id, err, idle_jobs,
                   running_processes, procs, job_logs>>

\* A monitoring loop that never sees a stop request.
StopSeen_Never(found) == FALSE

\* The test of line 170 on what get_job returned.
StopSeen(found) == found # None /\ found[1].stop_requested

\* run_next_job, lines 169-170 and 197: get_job outside the lock; a stop
\* request leads to the kill, anything else to the sleep and the next poll.
W_CheckStop ==
    /\ wpc = "check_stop"
    /\ wpc' = IF StopSeen(GetJob(job_id)) THEN "kill" ELSE "poll"
    /\ UNCHANGED <<storeVars, clock, next_id, callerVars, job_id, err, idle_jobs,
                   running_processes, procs, job_logs>>

\* run_next_job, lines 172-179: pkill -P, kill -KILL and process.kill() (all
\* harmless on a child that is gone), then the table entry is deleted.
W_Kill ==
    /\ wpc = "kill"
    /\ procs' = [procs EXCEPT ![job_id] =
                    IF @.st = "alive" THEN [st |-> "killed", rc |-> 0] ELSE @]
    /\ running_processes' = running_processes \ {job_id}
    /\ wpc' = "stopped"
    /\ UNCHANGED <<storeVars, clock, next_id, callerVars, job_id, err, idle_jobs,
                   job_logs>>

\* The updates of lines 181-187.
StoppedUpdates ==
    [status |-> "stopped", completed_at |-> Some(clock), exit_code |-> Some(-15),
     pid |-> None, stop_requested |-> FALSE]

W_StoppedBegin ==
    /\ wpc = "stopped"
    /\ UpdateJobBegin(Worker, job_id, StoppedUpdates)
    /\ clock' = clock + 1
    /\ wpc' = "stopped_save"
    /\ UNCHANGED <<next_id, callerVars, job_id, err, idle_jobs, running_processes,
                   procs, job_logs>>

W_StoppedEnd == W_EndSave("stopped_save", "stopped_log")

\* A return True of run_next_job: worker_loop calls it again at once.
W_Return ==
    /\ wpc' = "load"
    /\ job_id' = NoJob
    /\ err' = None

\* run_next_job, lines 190-195.
W_StoppedLog ==
    /\ wpc = "stopped_log"
    /\ WriteLogIfFound(job_id, "", "Job was stopped by user")
    /\ W_Return
    /\ UNCHANGED <<storeVars, clock, next_id, callerVars, idle_jobs,
                   running_processes, procs>>

\* run_next_job, lines 200-205: communicate() either raises (text=True decodes
\* the output) or returns it; then the table entry is deleted.
W_Communicate ==
    /\ wpc = "communicate"
    /\ \/ /\ err' = Some("communicate error")
          /\ wpc' = "except"
          /\ UNCHANGED running_processes
       \/ /\ running_processes' = running_processes \ {job_id}
          /\ wpc' = "completed"
          /\ err' = err
    /\ UNCHANGED <<storeVars, clock, next_id, callerVars, job_id, idle_jobs, procs,
                   job_logs>>

\* The status written at line 208 for a child that exited with exit_code.
FinishedStatus(exit_code) == "completed"

\* A terminal update that leaves the status as it is.
CompletedUpdates_NoStatus(exit_code) ==
    [completed_at |-> Some(clock), exit_code |-> Some(exit_code), pid |-> None]

\* The updates of lines 207-212; exit_code is process.returncode.
CompletedUpdates(exit_code) ==
    [status |-> FinishedStatus(exit_code), completed_at |-> Some(clock),
     exit_code |-> Some(exit_code), pid |-> None]

W_CompletedBegin ==
    /\ wpc = "completed"
    /\ UpdateJobBegin(Worker, job_id, CompletedUpdates(procs[job_id].rc))
    /\ clock' = clock + 1
    /\ wpc' = "completed_save"
    /\ UNCHANGED <<next_id, callerVars, job_id, err, idle_jobs, running_processes,
                   procs, job_logs>>

W_CompletedEnd == W_EndSave("completed_save", "completed_log")

\* run_next_job, lines 215-224.
W_CompletedLog ==
    /\ wpc = "completed_log"
    /\ WriteLogIfFound(job_id, "stdout", "stderr")
    /\ W_Return
    /\ UNCHANGED <<storeVars, clock, next_id, callerVars, idle_jobs,
                   running_processes, procs>>

\* run_next_job, lines 226-229: the table entry is deleted if there is one.
W_Except ==
    /\ wpc = "except"
    /\ running_processes' = running_processes \ {job_id}
    /\ wpc' = "failed"
    /\ UNCHANGED <<storeVars, clock, next_id, callerVars, job_id, err, idle_jobs,
                   procs, job_logs>>

\* A failure update that leaves the pid in the store.
FailedUpdates_KeepPid ==
    [status |-> "failed", completed_at |-> Some(clock), exit_code |-> Some(-1)]

\* The updates of lines 231-236.
FailedUpdates ==
    [status |-> "failed", completed_at |-> Some(clock), exit_code |-> Some(-1),
     pid |-> None]

W_FailedBegin ==
    /\ wpc = "failed"
    /\ UpdateJobBegin(Worker, job_id, FailedUpdates)
    /\ clock' = clock + 1
    /\ wpc' = "failed_save"
    /\ UNCHANGED <<next_id, callerVars, job_id, err, idle_jobs, running_processes,
                   procs, job_logs>>

W_FailedEnd == W_EndSave("failed_save", "failed_log")

\* run_next_job, lines 239-244: str(e) is the stderr section.
W_FailedLog ==
    /\ wpc = "failed_log"
    /\ WriteLogIfFound(job_id, "", err[1])
    /\ W_Return
    /\ UNCHANGED <<storeVars, clock, next_id, callerVars, idle_jobs,
                   running_processes, procs>>

\* An idle pass that does not look at the status.
CancelPending_AnyStatus(job) == job.stop_requested

\* The test of line 255.
CancelPending(job) == job.stop_requested /\ job.status = "pending"

\* The ids the loop of lines 254-255 acts on, in list order.
ToCancel(js) == SelectSeq(js, CancelPending)

\* worker_loop, lines 253-255: a second load outside the lock.
W_IdleLoad ==
    /\ wpc = "idle"
    /\ idle_jobs' = [k \in 1..Len(ToCancel(LoadQueue)) |-> ToCancel(LoadQueue)[k].id]
    /\ wpc' = "idle_loop"
    /\ UNCHANGED <<storeVars, clock, next_id, callerVars, job_id, err,
                   running_processes, procs, job_logs>>

\* The updates of lines 256-261.
CancelUpdates ==
    [status |-> "stopped", completed_at |-> Some(clock), exit_code |-> Some(-1),
     stop_requested |-> FALSE]

W_IdleCancelBegin ==
    /\ wpc = "idle_loop"
    /\ idle_jobs # <<>>
    /\ UpdateJobBegin(Worker, Head(idle_jobs), CancelUpdates)
    /\ clock' = clock + 1
    /\ wpc' = "idle_save"
    /\ UNCHANGED <<next_id, callerVars, job_id, err, idle_jobs, running_processes,
                   procs, job_logs>>

W_IdleCancelEnd ==
    /\ wpc = "idle_save"
    /\ EndSave(Worker)
    /\ idle_jobs' = Tail(idle_jobs)
    /\ wpc' = "idle_loop"
    /\ UNCHANGED <<clock, next_id, callerVars, job_id, err, running_processes,
                   procs, job_logs>>

\* worker_loop, line 264, and the next turn of the loop.
W_IdleSleep ==
    /\ wpc = "idle_loop"
    /\ idle_jobs = <<>>
    /\ wpc' = "load"
    /\ UNCHANGED <<storeVars, clock, next_id, callerVars, job_id, err, idle_jobs,
                   running_processes, procs, job_logs>>

\* ------------------------------------------------------------------ Next

Next ==
    \/ \E c \in Callers, command \in Commands, name \in NameArgs :
            AddJobBegin(c, command, name)
    \/ \E c \in Callers : AddJobEnd(c)
    \/ \E c \in Callers, id \in JobIds : RemoveJobBegin(c, id)
    \/ \E c \in Callers : RemoveJobEnd(c)
    \/ \E c \in Callers, id \in JobIds : RemoveJobFail(c, id)
    \/ \E c \in Callers, id \in JobIds : StopJobCheck(c, id)
    \/ \E c \in Callers : StopJobUpdateBegin(c)
    \/ \E c \in Callers : StopJobUpdateEnd(c)
    \/ W_Load
    \/ W_ClaimBegin
    \/ W_ClaimEnd
    \/ W_Spawn
    \/ W_SetPidBegin
    \/ W_SetPidEnd
    \/ \E i \in JobIds, rc \in ExitCodes : ProcExit(i, rc)
    \/ W_Poll
    \/ W_CheckStop
    \/ W_Kill
    \/ W_StoppedBegin
    \/ W_StoppedEnd
    \/ W_StoppedLog
    \/ W_Communicate
    \/ W_CompletedBegin
    \/ W_CompletedEnd
    \/ W_CompletedLog
    \/ W_Except
    \/ W_FailedBegin
    \/ W_FailedEnd
    \/ W_FailedLog
    \/ W_IdleLoad
    \/ W_IdleCancelBegin
    \/ W_IdleCancelEnd
    \/ W_IdleSleep

Spec == Init /\ [][Next]_vars

\* -------------------------------------------------------------- fairness

\* The steps of the worker thread.
WorkerNext ==
    \/ W_Load \/ W_ClaimBegin \/ W_ClaimEnd \/ W_Spawn \/ W_SetPidBegin \/ W_SetPidEnd
    \/ W_Poll \/ W_CheckStop \/ W_Kill \/ W_StoppedBegin \/ W_StoppedEnd \/ W_StoppedLog
    \/ W_Communicate \/ W_CompletedBegin \/ W_CompletedEnd \/ W_CompletedLog
    \/ W_Except \/ W_FailedBegin \/ W_FailedEnd \/ W_FailedLog
    \/ W_IdleLoad \/ W_IdleCancelBegin \/ W_IdleCancelEnd \/ W_IdleSleep

\* A caller inside `with self.lock` finishes its save and releases the lock.
CallerEnds == \E c \in Callers : AddJobEnd(c) \/ RemoveJobEnd(c) \/ StopJobUpdateEnd(c)

\* A launched child exits.
ProcExits == \E i \in JobIds, rc \in ExitCodes : ProcExit(i, rc)

\* The worker thread keeps being scheduled (worker_loop is `while True`) and
\* no thread stays inside a critical section for ever.  Children may run for
\* ever; callers may call as often as they like.
WorkerFairSpec == Spec /\ WF_vars(WorkerNext) /\ WF_vars(CallerEnds)

\* The same, with every launched child exiting unless it is killed first.
FairSpec == WorkerFairSpec /\ WF_vars(ProcExits)

\* One more caller thread, with a single job still to be added (its id is
\* the last of JobIds): the interleavings of two callers on one job.
CrowdInit == InitWith(NumCallers + 1, MaxJobs)
CrowdSpec == CrowdInit /\ [][Next]_vars

\* ================================================================ claims

\* The stored job with this id (None when the store has none).
Stored(id) == Find(queue_file, id)
StoredNext(id) == Find(queue_file', id)

RunningIndexes(js) == {i \in 1..Len(js) : js[i].status = "running"}

\* C1: in every reachable state at most one job of the store has status
\* 'running' (checked on the saved file and on every list about to be saved).
C1_AtMostOneRunning ==
    /\ Cardinality(RunningIndexes(queue_file)) <= 1
    /\ \A t \in Threads : jobs[t] # None => Cardinality(RunningIndexes(jobs[t][1])) <= 1

\* A second job runs after the first one has reached a terminal status.
C1_Witness ==
    \E i, k \in 1..Len(queue_file) :
        /\ queue_file[i].status \in Terminal
        /\ queue_file[i].started_at # None
        /\ queue_file[k].status = "running"

AllowedTransitions ==
    {<<"pending", "running">>, <<"running", "completed">>, <<"running", "failed">>,
     <<"running", "stopped">>, <<"pending", "stopped">>}

\* C2: every change of a job's stored status is one of the five transitions,
\* and a job whose status is terminal stays in the store with that status.
C2_StatusTransitions ==
    [][\A id \in JobIds :
         Stored(id) # None =>
            /\ StoredNext(id) # None =>
                  \/ StoredNext(id)[1].status = Stored(id)[1].status
                  \/ <<Stored(id)[1].status, StoredNext(id)[1].status>> \in AllowedTransitions
            /\ Stored(id)[1].status \in Terminal =>
                  /\ StoredNext(id) # None
                  /\ StoredNext(id)[1].status = Stored(id)[1].status]_vars

\* One job was cancelled while pending, another is terminal and carries a stop
\* request that arrived too late.
C2_Witness ==
    \E i, k \in 1..Len(queue_file) :
        /\ i # k
        /\ queue_file[i].status = "stopped" /\ queue_file[i].started_at = None
        /\ queue_file[k].status \in Terminal /\ queue_file[k].stop_requested

\* C3 (as claimed): a job whose process finished on its own is 'completed'
\* exactly when its exit code is 0: no completed job has a non-zero exit code.
C3_CompletedMeansExitZero ==
    \A i \in 1..Len(queue_file) :
        queue_file[i].status = "completed" => queue_file[i].exit_code = Some(0)

\* C4 (as claimed): a pending job with an accepted stop request never starts:
\* its status only ever becomes 'stopped' with exit code -1, no process is
\* spawned for it and nothing is written to its job log.
C4_PendingStopNeverRuns ==
    [][\A id \in JobIds :
         (/\ Stored(id) # None
          /\ Stored(id)[1].status = "pending"
          /\ Stored(id)[1].stop_requested
          /\ StoredNext(id) # None)
         => /\ \/ StoredNext(id)[1].status = "pending"
               \/ /\ StoredNext(id)[1].status = "stopped"
                  /\ StoredNext(id)[1].exit_code = Some(-1)
            /\ procs'[id].st = "none"
            /\ job_logs'[id] = <<>>]_vars

\* The worker is between the save of a terminal status and the log write for id.
LogDue(id) == job_id = id /\ wpc \in {"stopped_log", "completed_log", "failed_log"}

\* C5 (as claimed): when stop_job returned True for a job it saw running and
\* the job's process was launched, the job is running or stopped; once stopped (and its log due no more) it has
\* exit code -15, a log record with the cancellation note and a dead process.
C5_RunningStopStops ==
    \A c \in Callers :
        (/\ call[c].op = "stop"
         /\ call[c].ret = Some(TRUE)
         /\ call[c].seen = Some("running")
         /\ procs[call[c].id].st # "none"
         /\ Stored(call[c].id) # None)
        => /\ Stored(call[c].id)[1].status \in {"running", "stopped"}
           /\ (Stored(call[c].id)[1].status = "stopped" /\ ~LogDue(call[c].id)) =>
                 /\ Stored(call[c].id)[1].exit_code = Some(-15)
                 /\ procs[call[c].id].st # "alive"
                 /\ \E k \in 1..Len(job_logs[call[c].id]) :
                       job_logs[call[c].id][k].stderr = Some("Job was stopped by user")

\* C6 (as claimed): stop_job never writes to a job whose stored status is
\* terminal at the moment of the write, and never returns True for one.
C6_StopOnTerminalIsNoOp ==
    [][\A c \in Callers :
         (cpc[c] = "stop_save" /\ cpc'[c] = "idle") =>
            ~(Stored(call[c].id) # None /\ Stored(call[c].id)[1].status \in Terminal)]_vars

\* C7: every save is based on the store as it is at the save (no writer saved
\* in between); so a job leaves the store only by remove_job, and a stop
\* request is cleared only by a worker update that records 'stopped'.
C7_NoLostUpdate ==
    [][/\ \A t \in Threads :
            (jobs[t] # None /\ jobs'[t] = None) => loaded[t] = Some(queue_file)
       /\ \A id \in JobIds :
            Stored(id) # None =>
               /\ StoredNext(id) = None =>
                     \E c \in Callers : cpc[c] = "remove_save" /\ call[c].id = id
               /\ (StoredNext(id) # None /\ Stored(id)[1].stop_requested
                     /\ ~StoredNext(id)[1].stop_requested) =>
                     (jobs[Worker] # None /\ StoredNext(id)[1].status = "stopped")]_vars

\* The worker is in the middle of a save while a caller that has passed the
\* test of stop_job waits to write.
C7_Witness ==
    /\ lock = Worker
    /\ jobs[Worker] # None
    /\ \E c \in Callers : cpc[c] = "stop_update"

\* C8: when the worker's save turns a job from pending to running, no job
\* stored before it is pending; and jobs started are started in stored order.
C8_Fifo ==
    [][/\ \A i \in 1..Len(queue_file) :
            (/\ i <= Len(queue_file')
             /\ queue_file'[i].id = queue_file[i].id
             /\ queue_file[i].status = "pending"
             /\ queue_file'[i].status = "running")
            => \A k \in 1..(i - 1) : queue_file[k].status # "pending"
       /\ \A i, k \in 1..Len(queue_file') :
            (i < k /\ queue_file'[i].started_at # None /\ queue_file'[k].started_at # None)
            => queue_file'[i].started_at[1] < queue_file'[k].started_at[1]]_vars

\* Two jobs are stored and the second has been started.
C8_Witness ==
    /\ Len(queue_file) >= 2
    /\ queue_file[2].started_at # None
    /\ queue_file[1].started_at # None

\* The list without the jobs of this id, order kept.
Without(js, id) ==
    LET Other(j) == j.id # id IN SelectSeq(js, Other)

\* C9: remove_job returns False only for an id that has no pending job, and
\* then the store is unchanged; it begins a deletion only for a pending job,
\* and its save removes that job alone, the other jobs keeping their order.
C9_Remove ==
    [][\A c \in Callers :
         /\ (call'[c] # call[c] /\ call'[c].op = "remove" /\ call'[c].ret = Some(FALSE)) =>
               /\ queue_file' = queue_file
               /\ \/ Stored(call'[c].id) = None
                  \/ Stored(call'[c].id)[1].status # "pending"
         /\ (cpc[c] = "idle" /\ cpc'[c] = "remove_save") =>
               /\ Stored(call'[c].id) # None
               /\ Stored(call'[c].id)[1].status = "pending"
         /\ (cpc[c] = "remove_save" /\ cpc'[c] = "idle") =>
               /\ call'[c].ret = Some(TRUE)
               /\ Stored(call[c].id) # None
               /\ Stored(call[c].id)[1].status = "pending"
               /\ queue_file' = Without(queue_file, call[c].id)]_vars

\* remove_job has returned False for a job that is in the store, and the
\* store still holds two jobs.
C9_Witness ==
    \E c \in Callers :
        /\ call[c].op = "remove"
        /\ call[c].ret = Some(FALSE)
        /\ Stored(call[c].id) # None
        /\ Len(queue_file) = 2

\* C10 (as claimed): a job with a terminal status has exactly one log record
\* (once the worker is past the log write), any other job has none.
C10_OneLogPerTerminalJob ==
    \A id \in JobIds :
        Stored(id) # None =>
           IF Stored(id)[1].status \in Terminal
           THEN LogDue(id) \/ Len(job_logs[id]) = 1
           ELSE Len(job_logs[id]) = 0

\* C11 (as claimed): when Popen or communicate raised, the worker leaves the
\* except clause with the stored job 'failed', exit code -1, pid None, no entry
\* in the process table and one log record holding the error text, and it is
\* back at the load of its loop.
C11_ExceptionFailsJob ==
    [][(wpc = "failed_log" /\ wpc' # wpc /\ Stored(job_id) # None) =>
          /\ Stored(job_id)[1].status = "failed"
          /\ Stored(job_id)[1].exit_code = Some(-1)
          /\ Stored(job_id)[1].pid = None
          /\ job_id \notin running_processes'
          /\ wpc' = "load"
          /\ Len(job_logs'[job_id]) = 1
          /\ job_logs'[job_id][1].stderr = err]_vars

\* C12 (as claimed): under weak fairness of the worker, with every launched
\* child exiting or being killed, a stored job is eventually removed or
\* reaches a terminal status.
C12_EveryJobEnds ==
    \A id \in JobIds :
        (Stored(id) # None) ~> (Stored(id) = None \/ Stored(id)[1].status \in Terminal)

\* C13 (as claimed): under weak fairness of the worker, a running job whose
\* stop was requested eventually leaves 'running', whether or not its child
\* ever exits.
C13_StopIsObserved ==
    \A id \in JobIds :
        (Stored(id) # None /\ Stored(id)[1].status = "running" /\ Stored(id)[1].stop_requested)
        ~> (Stored(id) = None \/ Stored(id)[1].status # "running")

\* From some point on no caller starts or finishes a call.
CallersQuiet == <>[][UNCHANGED callerVars]_vars

\* C12 (amended): when the callers' requests cease, every stored job is
\* eventually removed or terminal.
C12_EveryJobEndsOnceQuiet == CallersQuiet => C12_EveryJobEnds

\* C13 (amended): when the callers' requests cease, a running job whose stop
\* was requested eventually leaves 'running'.
C13_StopIsObservedOnceQuiet == CallersQuiet => C13_StopIsObserved

\* Both jobs of a full queue have ended, one of them after running.
C12_Witness ==
    /\ Len(queue_file) = 2
    /\ \A i \in 1..2 : queue_file[i].status \in Terminal
    /\ \E i \in 1..2 : queue_file[i].started_at # None

\* A running job was stopped on request: its child was killed by the worker.
C13_Witness ==
    \E i \in 1..Len(queue_file) :
        /\ queue_file[i].status = "stopped"
        /\ queue_file[i].exit_code = Some(-15)
        /\ procs[queue_file[i].id].st = "killed"


\* C14: every child the worker launches belongs to a job that is in the store
\* with status 'running' when it is launched; no child is launched for a job
\* that remove_job has deleted.
C14_SpawnOnlyStoredRunning ==
    [][(wpc = "spawn" /\ wpc' = "set_pid") =>
          /\ Stored(job_id) # None
          /\ Stored(job_id)[1].status = "running"]_vars


\* C15 (as claimed): in every reachable state a stored job has a pid exactly
\* when its status is 'running' and its id is a key of the process table.
C15_PidIffRunningTracked ==
    \A i \in 1..Len(queue_file) :
        queue_file[i].pid # None <=>
            (queue_file[i].status = "running" /\ queue_file[i].id \in running_processes)

\* The worker is between the deletion of the table entry (lines 178-179,
\* 204-205, 228-229) and the end of the save that clears the pid.
PidBeingCleared ==
    wpc \in {"stopped", "stopped_save", "completed", "completed_save",
             "failed", "failed_save"}

\* The worker is between the table insert of line 159 and the end of the save
\* of line 162 that records the pid.
PidBeingSet == wpc \in {"set_pid", "set_pid_save"}

\* C15 (amended): a stored job has a pid only while its status is 'running',
\* it is the job the worker is executing and the pid is that of its child;
\* its id is then a key of the process table unless the worker is clearing the
\* pid; and a running job whose id is in the table has a pid unless the worker
\* is recording it.
C15_PidOnlyWhileRunning ==
    \A i \in 1..Len(queue_file) :
        LET job == queue_file[i] IN
        /\ job.pid # None =>
              /\ job.status = "running"
              /\ job.id = job_id
              /\ job.pid = Some(PidOf(job.id))
              /\ job.id \in running_processes \/ PidBeingCleared
        /\ (job.status = "running" /\ job.id \in running_processes) =>
              job.pid # None \/ PidBeingSet

\* A running job with its pid recorded and its handle in the process table.
C15_Witness ==
    \E i \in 1..Len(queue_file) :
        /\ queue_file[i].status = "running"
        /\ queue_file[i].pid = Some(PidOf(queue_file[i].id))
        /\ queue_file[i].id \in running_processes
        /\ wpc = "check_stop"


\* C16: whenever a save moves a stored job into a terminal status (stopped,
\* completed or failed), the job's stored stop_requested is false afterwards.
C16_StopRequestCleared ==
    [][\A id \in JobIds :
         (/\ Stored(id) # None
          /\ Stored(id)[1].status \notin Terminal
          /\ StoredNext(id) # None
          /\ StoredNext(id)[1].status \in Terminal)
         => ~StoredNext(id)[1].stop_requested]_vars


\* C17: a stored job has an exit code exactly when its status is terminal,
\* and exit code -15 is found only on a stopped job whose child the worker
\* killed on request.
C17_ExitCodeMeaning ==
    \A i \in 1..Len(queue_file) :
        LET job == queue_file[i] IN
        /\ job.exit_code # None <=> job.status \in Terminal
        /\ job.exit_code = Some(-15) =>
              job.status = "stopped" /\ procs[job.id].st = "killed"


\* C18: created_at is fixed when the job is added; started_at changes only
\* from null to a value, on the step from pending to running; completed_at
\* changes only from null to a value, on the step into a terminal status; and
\* completed_at is non-null exactly when the status is terminal.
C18_TimestampsSetOnce ==
    [][\A id \in JobIds :
         StoredNext(id) # None =>
           LET new == StoredNext(id)[1] IN
           /\ new.completed_at # None <=> new.status \in Terminal
           /\ new.created_at # None
           /\ Stored(id) = None => (new.started_at = None /\ new.completed_at = None)
           /\ Stored(id) # None =>
                LET old == Stored(id)[1] IN
                /\ new.created_at = old.created_at
                /\ new.started_at # old.started_at =>
                      /\ old.started_at = None
                      /\ old.status = "pending" /\ new.status = "running"
                /\ new.completed_at # old.completed_at =>
                      /\ old.completed_at = None
                      /\ old.status \notin Terminal /\ new.status \in Terminal]_vars

\* A job that ran to its end carries three timestamps taken in that order.
C18_Witness ==
    \E i \in 1..Len(queue_file) :
        /\ queue_file[i].status \in Terminal
        /\ queue_file[i].created_at # None
        /\ queue_file[i].started_at # None
        /\ queue_file[i].completed_at # None
        /\ queue_file[i].created_at[1] < queue_file[i].started_at[1]
        /\ queue_file[i].started_at[1] < queue_file[i].completed_at[1]


\* Caller c's stop_job finishes its save in this step and returns True.
StopReturnsTrue(c) == cpc[c] = "stop_save" /\ cpc'[c] = "idle"

\* C19: a stop_job call changes at most the stop_requested field of its job
\* (every other field, every other job and the order of the queue stay as
\* they are), and it returns True only when its save has set stop_requested
\* on a job present in the store.
C19_StopFrameAndResult ==
    [][\A c \in Callers :
         StopReturnsTrue(c) =>
            /\ Len(queue_file') = Len(queue_file)
            /\ \A i \in 1..Len(queue_file) :
                  queue_file'[i] = IF queue_file[i].id = call[c].id
                                   THEN [queue_file[i] EXCEPT !.stop_requested = TRUE]
                                   ELSE queue_file[i]
            /\ StoredNext(call[c].id) # None
            /\ StoredNext(call[c].id)[1].stop_requested]_vars


\* C20: the process table holds at most one entry, and every key of it is
\* the id of a job that is in the store with status 'running'.
C20_ProcessTable ==
    /\ Cardinality(running_processes) <= 1
    /\ \A id \in running_processes :
          Stored(id) # None /\ Stored(id)[1].status = "running"

====
